---------------------------- MODULE Spec2Model ----------------------------
(***************************************************************************)
(* Model of the bucketized cuckoo table UTXOManager (CuckooUTXO).          *)
(*                                                                         *)
(* The three programs of the repository carry the same class; the          *)
(* parametrised one (rst2.cpp) takes NUM_BUCKETS, BUCKET_SIZE and          *)
(* FINGERPRINT_BITS as constructor arguments, and the model instantiates   *)
(* it with a table of 2 buckets and with one of 4 buckets.  remove_utxo /  *)
(* delete_utxo exist only in the two fixed-size programs and are modelled  *)
(* from there.                                                             *)
(*                                                                         *)
(* Specifications:                                                         *)
(*   Spec            any sequence of add / get / remove calls              *)
(*   SpecHistory     the same calls, at most MaxOps of them, with their    *)
(*                   history recorded                                      *)
(*   SpecSaturation  inserts only, one key per (bucket, fingerprint) pair  *)
(*   SpecWide        at most MaxOps calls on the table of 4 buckets, with  *)
(*                   two values and the walk of each insert recorded       *)
(*   SpecProbe       get_alt_bucket, get_bucket_fingerprint and the        *)
(*                   constructor on arguments other than the instance's    *)
(*                                                                         *)
(* The boolean results of the code are named after the return site:        *)
(*   add_utxo     true                      -> "Inserted"                  *)
(*                false in a duplicate loop -> "RejectedDuplicate"         *)
(*                false out of relocate     -> "RejectedCapacity"          *)
(*   remove_utxo  true / false              -> "Removed" / "NotFound"      *)
(*   get_utxo     &entry.value / nullptr    -> "Found" with the value /    *)
(*                                             "Null" with NoValue         *)
(***************************************************************************)
EXTENDS Integers, Sequences, FiniteSets

(***************************************************************************)
(* Configuration of the instance and bounds of the exploration.            *)
(***************************************************************************)
FINGERPRINT_BITS == 2
BUCKET_SIZE == 2
MAX_RELOCATIONS == 2
NumKeys == 5
MaxValue == 1
MaxOps == 5
MaxBucketBits == 3
MaxFingerprintBits == 4
MaxNumBuckets == 4

\* num_buckets of the two tables the model constructs
SmallTable == 2
WideTable == 4

RECURSIVE Pow2(_)
Pow2(n) == IF n = 0 THEN 1 ELSE 2 * Pow2(n - 1)

\* ceil(log2(n)) for n >= 1
RECURSIVE CeilLog2(_)
CeilLog2(n) == IF n <= 1 THEN 0 ELSE 1 + CeilLog2((n + 1) \div 2)

(***************************************************************************)
(* State.                                                                  *)
(*   params   the fields NUM_BUCKETS and BUCKET_BITS, set by the           *)
(*            constructor and never written again                          *)
(*   buckets  vector<vector<BucketEntry>>; an entry also carries `key',    *)
(*            the key whose insert created it: a history field that no     *)
(*            operation reads.                                             *)
(*   last     the last call and what it returned; for an insert that went  *)
(*            through relocate, the number of evictions of the walk and,   *)
(*            when the walk failed, the key of the entry it held when it   *)
(*            gave up                                                      *)
(*   hist     history of the calls, kept only by SpecHistory, SpecWide and *)
(*            SpecSaturation:                                              *)
(*     live      per address (bucket, fingerprint), the value of the last  *)
(*               insert at that address that returned Inserted, until the  *)
(*               next insert or remove call at the same address            *)
(*     inserted  number of Inserted results                                *)
(*     removed   number of Removed results                                 *)
(*     dups      some insert was rejected as a duplicate                   *)
(*     full      some insert was rejected for capacity                     *)
(*     seen      the addresses insert was called with                      *)
(*     ops       number of calls                                           *)
(*     walk      the evictions of the last call, kept only by SpecWide     *)
(*   probe    the last evaluation of an addressing function or of the      *)
(*            constructor on arguments of its own, kept only by SpecProbe  *)
(***************************************************************************)
VARIABLES params, buckets, last, hist, probe

vars == <<params, buckets, last, hist, probe>>

NUM_BUCKETS == params.NUM_BUCKETS
BUCKET_BITS == params.BUCKET_BITS

\* keys are one-byte strings, the first NumKeys of "e", "g", "f", "d", "n", "c", "m":
\* with one bucket bit and two fingerprint bits their digests split into
\* (bucket, fingerprint) = (0,1), (0,3), (0,0), (0,2), (0,1), (1,3), (0,0),
\* so that "n" collides with "e"
KeyBytes == <<101, 103, 102, 100, 110, 99, 109>>
Keys == {<<KeyBytes[i]>> : i \in 1..NumKeys}

\* "c", address (1,3): a key that is looked up and removed but never inserted
AbsentKeys == {<<99>>}

\* "e", "g", "f", "d", "c", "b", "a", "k": one key for each of the eight
\* (bucket, fingerprint) pairs, (0,1), (0,3), (0,0), (0,2), (1,3), (1,0),
\* (1,1), (1,2)
SaturationKeyBytes == <<101, 103, 102, 100, 99, 98, 97, 107>>
SaturationKeys == {<<SaturationKeyBytes[i]>> : i \in 1..Len(SaturationKeyBytes)}

\* "f", "d", "b", "y", "o": in a table of WideTable buckets with two
\* fingerprint bits their addresses are (0,0), (0,3), (1,2), (1,1), (0,1), so
\* that "f" and "d" fill bucket 0, "b" and "y" fill bucket 1, and "o" has a full
\* primary bucket 0 and a full alternate bucket 1, which holds "y", a key of
\* the same fingerprint as "o"
WideKeyBytes == <<102, 100, 98, 121, 111>>
WideKeys == {<<WideKeyBytes[i]>> : i \in 1..Len(WideKeyBytes)}
WideValues == 1..(MaxValue + 1)

AllKeys == Keys \cup AbsentKeys \cup SaturationKeys \cup WideKeys
Values == 1..MaxValue
NoValue == 0
NoKey == <<>>
BucketIds == 0..(NUM_BUCKETS - 1)
Fingerprints == 0..(Pow2(FINGERPRINT_BITS) - 1)

(***************************************************************************)
(* 32-bit unsigned arithmetic.  A uint32_t is the pair <<hi, lo>> of its   *)
(* 16-bit halves, so that every operation wraps at 2^32 as in the code.    *)
(***************************************************************************)
HALF == Pow2(16)

RECURSIVE BitXor(_, _)
BitXor(a, b) ==
  IF a = 0 THEN b
  ELSE IF b = 0 THEN a
  ELSE ((a + b) % 2) + 2 * BitXor(a \div 2, b \div 2)

Xor32(x, y) == <<BitXor(x[1], y[1]), BitXor(x[2], y[2])>>

\* ~x
Not32(x) == <<(HALF - 1) - x[1], (HALF - 1) - x[2]>>

\* x >> n, 0 <= n < 32
ShiftRight32(x, n) ==
  IF n <= 16
  THEN <<x[1] \div Pow2(n), (x[1] % Pow2(n)) * Pow2(16 - n) + x[2] \div Pow2(n)>>
  ELSE <<0, x[1] \div Pow2(n - 16)>>

\* x & ((1 << n) - 1) as a number, 0 <= n <= 30
LowBits32(x, n) ==
  IF n <= 16 THEN x[2] % Pow2(n)
  ELSE (x[1] % Pow2(n - 16)) * HALF + x[2]

\* (a * b) mod 2^16 for 16-bit a, b, without leaving 31 bits
MulMod16(a, b) == ((a % 256) * b + (((a \div 256) * b) % 256) * 256) % HALF

\* the uint32_t product f * m of a number f < 2^32 and a word m
Mul32(f, m) ==
  LET f_lo == f % HALF
      f_hi == f \div HALF
      lo_full == f_lo * m[2]
  IN  <<((lo_full \div HALF) + MulMod16(f_lo, m[1]) + MulMod16(f_hi, m[2])) % HALF,
        lo_full % HALF>>

polynomial == <<60856, 33568>>  \* 0xEDB88320

RECURSIVE crc32_bits(_, _)
crc32_bits(crc, i) ==
  IF i = 8 THEN crc
  ELSE crc32_bits(Xor32(ShiftRight32(crc, 1),
                        IF crc[2] % 2 = 1 THEN polynomial ELSE <<0, 0>>), i + 1)

RECURSIVE crc32_loop(_, _, _)
crc32_loop(key, n, crc) ==
  IF n > Len(key) THEN crc
  ELSE crc32_loop(key, n + 1, crc32_bits(Xor32(crc, <<0, key[n]>>), 0))

crc32_hash(key) == Not32(crc32_loop(key, 1, <<HALF - 1, HALF - 1>>))

\* digest of every key of the model, computed once
Digest == [k \in AllKeys |-> crc32_hash(k)]

\* split of a digest h in a table built with bucket_bits and
\* fingerprint_bits: h & ((1 << BUCKET_BITS) - 1) and
\* (h >> BUCKET_BITS) & ((1 << FINGERPRINT_BITS) - 1)
bucket_at_Wide(h, bucket_bits) == LowBits32(h, bucket_bits + 1)

bucket_at(h, bucket_bits) == LowBits32(h, bucket_bits)

fingerprint_at(h, bucket_bits, fingerprint_bits) ==
  LowBits32(ShiftRight32(h, bucket_bits), fingerprint_bits)

\* split of a digest h, as get_bucket_fingerprint does after hashing
bucket_of(h) == bucket_at(h, BUCKET_BITS)
fingerprint_of(h) == fingerprint_at(h, BUCKET_BITS, FINGERPRINT_BITS)

\* BUCKET_BITS of the tables the model constructs
TableBits == {CeilLog2(SmallTable), CeilLog2(WideTable)}

\* get_bucket_fingerprint of every key in those tables, computed once
KeyAddress ==
  [bits \in TableBits |->
     [k \in AllKeys |->
        [bucket |-> bucket_at(Digest[k], bits),
         fingerprint |-> fingerprint_at(Digest[k], bits, FINGERPRINT_BITS)]]]

get_bucket_fingerprint(key) == KeyAddress[BUCKET_BITS][key]

FP_MULT == <<52382, 11601>>  \* 0xCC9E2D51

\* fingerprint * 0xCC9E2D51 & ((1 << bucket_bits) - 1)
fp_hash_mask(fingerprint, bucket_bits) ==
  LowBits32(Mul32(fingerprint, FP_MULT), bucket_bits)

alt_bucket_of_Add(bucket, fingerprint, bucket_bits) ==
  (bucket + fp_hash_mask(fingerprint, bucket_bits)) % Pow2(bucket_bits)

\* get_alt_bucket of a table built with bucket_bits bucket bits
alt_bucket_of(bucket, fingerprint, bucket_bits) ==
  BitXor(bucket, fp_hash_mask(fingerprint, bucket_bits))

\* the mask and get_alt_bucket on every bucket and fingerprint of the tables
\* the model constructs, computed once
FpHashLow ==
  [bits \in TableBits |-> [f \in Fingerprints |-> fp_hash_mask(f, bits)]]

AltBucket ==
  [bits \in TableBits |->
     [b \in 0..(Pow2(bits) - 1) |->
        [f \in Fingerprints |-> alt_bucket_of(b, f, bits)]]]

fp_hash_low(fingerprint) == FpHashLow[BUCKET_BITS][fingerprint]

get_alt_bucket(bucket, fingerprint) == AltBucket[BUCKET_BITS][bucket][fingerprint]

(***************************************************************************)
(* Entries, calls and the constructor.                                     *)
(***************************************************************************)
BucketEntry(fp, sb, val, key) ==
  [fingerprint |-> fp, selector_bit |-> sb, value |-> val, key |-> key]

Addresses == BucketIds \X Fingerprints

AddrOf(key) ==
  LET bf == get_bucket_fingerprint(key) IN <<bf.bucket, bf.fingerprint>>

Call(op, key, value, ret, evictions, dropped) ==
  [op |-> op, key |-> key, value |-> value, ret |-> ret, evictions |-> evictions,
   dropped |-> dropped]

NoProbe == [op |-> "none"]

\* UTXOManager(num_buckets, ...): NUM_BUCKETS(num_buckets),
\* BUCKET_BITS(ceil(log2(num_buckets))), buckets.resize(NUM_BUCKETS)
UTXOManager(num_buckets) ==
  /\ params = [NUM_BUCKETS |-> num_buckets, BUCKET_BITS |-> CeilLog2(num_buckets)]
  /\ buckets = [b \in 0..(num_buckets - 1) |-> <<>>]
  /\ last = Call("none", NoKey, NoValue, "none", 0, NoKey)
  /\ hist = [live |-> [a \in Addresses |-> NoValue],
             inserted |-> 0, removed |-> 0, dups |-> FALSE, full |-> FALSE,
             seen |-> {}, ops |-> 0, walk |-> <<>>]
  /\ probe = NoProbe

Init == UTXOManager(SmallTable)

(***************************************************************************)
(* Bucket primitives.                                                      *)
(***************************************************************************)
HasRoom_Over(bucket_seq) == Len(bucket_seq) <= BUCKET_SIZE

HasRoom_Tight(bucket_seq) == Len(bucket_seq) < BUCKET_SIZE - 1

\* buckets[b].size() < BUCKET_SIZE
HasRoom(bucket_seq) == Len(bucket_seq) < BUCKET_SIZE

Matches_AnySelector(entry, fingerprint, sb) == entry.fingerprint = fingerprint

\* entry.fingerprint == fingerprint && entry.selector_bit == sb
Matches(entry, fingerprint, sb) ==
  entry.fingerprint = fingerprint /\ entry.selector_bit = sb

HasMatch(bucket_seq, fingerprint, sb) ==
  \E i \in 1..Len(bucket_seq) : Matches(bucket_seq[i], fingerprint, sb)

FirstMatch_Last(bucket_seq, fingerprint, sb) ==
  CHOOSE i \in 1..Len(bucket_seq) :
    /\ Matches(bucket_seq[i], fingerprint, sb)
    /\ \A j \in (i + 1)..Len(bucket_seq) : ~Matches(bucket_seq[j], fingerprint, sb)

\* index of the first matching entry (the loops return at the first match)
FirstMatch(bucket_seq, fingerprint, sb) ==
  CHOOSE i \in 1..Len(bucket_seq) :
    /\ Matches(bucket_seq[i], fingerprint, sb)
    /\ \A j \in 1..(i - 1) : ~Matches(bucket_seq[j], fingerprint, sb)

Erase_Front(bucket_seq, i) == Tail(bucket_seq)

Erase_ToEnd(bucket_seq, i) == SubSeq(bucket_seq, 1, i - 1)

\* vector::erase(it)
Erase(bucket_seq, i) ==
  SubSeq(bucket_seq, 1, i - 1) \o SubSeq(bucket_seq, i + 1, Len(bucket_seq))

PlacePrimary_AsAlternate(bk, bucket, fingerprint, value, key) ==
  [bk EXCEPT ![bucket] = Append(@, BucketEntry(fingerprint, TRUE, value, key))]

\* buckets[bucket].push_back({fingerprint, false, value})
PlacePrimary(bk, bucket, fingerprint, value, key) ==
  [bk EXCEPT ![bucket] = Append(@, BucketEntry(fingerprint, FALSE, value, key))]

PlaceAlternate_AsPrimary(bk, alt_bucket, fingerprint, value, key) ==
  [bk EXCEPT ![alt_bucket] = Append(@, BucketEntry(fingerprint, FALSE, value, key))]

\* buckets[alt_bucket].push_back({fingerprint, true, value})
PlaceAlternate(bk, alt_bucket, fingerprint, value, key) ==
  [bk EXCEPT ![alt_bucket] = Append(@, BucketEntry(fingerprint, TRUE, value, key))]

(***************************************************************************)
(* relocate: the set of results over all choices of the random victim.     *)
(* A result is [ok, buckets, walk]; walk lists, per eviction, the depth,   *)
(* the bucket overwritten, the slot, the fingerprint and selector bit of   *)
(* the evicted entry, and its new bucket.                                  *)
(***************************************************************************)
DepthExceeded_Early(depth) == depth >= MAX_RELOCATIONS

\* depth > MAX_RELOCATIONS
DepthExceeded(depth) == depth > MAX_RELOCATIONS

\* dropped: the key of the tuple relocate holds when it returns false
RelocResult(ok, bk, walk, dropped) ==
  [ok |-> ok, buckets |-> bk, walk |-> walk, dropped |-> dropped]

Overwrite_Keep(bk, alt_bucket, evict_idx, fingerprint, value, key) == bk

Overwrite_Other(bk, alt_bucket, evict_idx, fingerprint, value, key) ==
  [bk EXCEPT ![get_alt_bucket(alt_bucket, fingerprint)][evict_idx] =
               BucketEntry(fingerprint, TRUE, value, key)]

Overwrite_Append(bk, alt_bucket, evict_idx, fingerprint, value, key) ==
  [bk EXCEPT ![alt_bucket] = Append(@, BucketEntry(fingerprint, TRUE, value, key))]

\* buckets[alt_bucket][evict_idx] = {fingerprint, true, value}
Overwrite(bk, alt_bucket, evict_idx, fingerprint, value, key) ==
  [bk EXCEPT ![alt_bucket][evict_idx] = BucketEntry(fingerprint, TRUE, value, key)]

PushEvicted_Lost(bk, new_bucket, evicted) == bk

\* buckets[new_bucket].push_back(evicted)
PushEvicted(bk, new_bucket, evicted) ==
  [bk EXCEPT ![new_bucket] = Append(@, evicted)]

RECURSIVE relocate(_, _, _, _, _, _, _)
relocate(bk, bucket, fingerprint, value, key, depth, walk) ==
  IF DepthExceeded(depth) THEN {RelocResult(FALSE, bk, walk, key)}
  ELSE
    LET alt_bucket == get_alt_bucket(bucket, fingerprint) IN
    IF HasRoom(bk[alt_bucket])
    THEN {RelocResult(TRUE, PlaceAlternate(bk, alt_bucket, fingerprint, value, key),
                      walk, NoKey)}
    ELSE
      UNION {
        LET evicted == bk[alt_bucket][evict_idx]
            bk1 == Overwrite(bk, alt_bucket, evict_idx, fingerprint, value, key)
            new_bucket == IF evicted.selector_bit
                          THEN BitXor(alt_bucket, fp_hash_low(evicted.fingerprint))
                          ELSE get_alt_bucket(alt_bucket, evicted.fingerprint)
            walk1 == Append(walk, [depth |-> depth, from |-> alt_bucket,
                                   idx |-> evict_idx,
                                   fingerprint |-> evicted.fingerprint,
                                   selector_bit |-> evicted.selector_bit,
                                   to |-> new_bucket])
        IN  IF HasRoom(bk1[new_bucket])
            THEN {RelocResult(TRUE, PushEvicted(bk1, new_bucket, evicted),
                              walk1, NoKey)}
            ELSE relocate(bk1, new_bucket, evicted.fingerprint, evicted.value,
                          evicted.key, depth + 1, walk1)
        : evict_idx \in 1..Len(bk[alt_bucket]) }

(***************************************************************************)
(* add_utxo: the set of results [ret, buckets, walk] of add_utxo(key,      *)
(* value) on the table bk.                                                 *)
(***************************************************************************)
IsDuplicate_PrimaryOnly(bk, bucket, fingerprint) ==
  HasMatch(bk[bucket], fingerprint, FALSE)

IsDuplicate(bk, bucket, fingerprint) ==
  \/ HasMatch(bk[bucket], fingerprint, FALSE)
  \/ HasMatch(bk[get_alt_bucket(bucket, fingerprint)], fingerprint, TRUE)

add_utxo(bk, key, value) ==
  LET bf == get_bucket_fingerprint(key)
      bucket == bf.bucket
      fingerprint == bf.fingerprint
      alt_bucket == get_alt_bucket(bucket, fingerprint)
  IN
  IF IsDuplicate(bk, bucket, fingerprint)
  THEN {[ret |-> "RejectedDuplicate", buckets |-> bk, walk |-> <<>>,
         dropped |-> NoKey]}
  ELSE IF HasRoom(bk[bucket])
  THEN {[ret |-> "Inserted",
         buckets |-> PlacePrimary(bk, bucket, fingerprint, value, key),
         walk |-> <<>>, dropped |-> NoKey]}
  ELSE IF HasRoom(bk[alt_bucket])
  THEN {[ret |-> "Inserted",
         buckets |-> PlaceAlternate(bk, alt_bucket, fingerprint, value, key),
         walk |-> <<>>, dropped |-> NoKey]}
  ELSE {[ret |-> IF r.ok THEN "Inserted" ELSE "RejectedCapacity",
         buckets |-> r.buckets, walk |-> r.walk, dropped |-> r.dropped]
        : r \in relocate(bk, bucket, fingerprint, value, key, 0, <<>>)}

Insert(key, value) ==
  \E r \in add_utxo(buckets, key, value) :
    /\ buckets' = r.buckets
    /\ last' = Call("insert", key, value, r.ret, Len(r.walk), r.dropped)

(***************************************************************************)
(* get_utxo                                                                *)
(***************************************************************************)
get_utxo_PrimaryOnly(bk, key) ==
  LET bf == get_bucket_fingerprint(key) IN
  IF HasMatch(bk[bf.bucket], bf.fingerprint, FALSE)
  THEN bk[bf.bucket][FirstMatch(bk[bf.bucket], bf.fingerprint, FALSE)].value
  ELSE NoValue

get_utxo(bk, key) ==
  LET bf == get_bucket_fingerprint(key)
      bucket == bf.bucket
      fingerprint == bf.fingerprint
      alt_bucket == get_alt_bucket(bucket, fingerprint)
  IN
  IF HasMatch(bk[bucket], fingerprint, FALSE)
  THEN bk[bucket][FirstMatch(bk[bucket], fingerprint, FALSE)].value
  ELSE IF HasMatch(bk[alt_bucket], fingerprint, TRUE)
  THEN bk[alt_bucket][FirstMatch(bk[alt_bucket], fingerprint, TRUE)].value
  ELSE NoValue

Lookup_Consuming(key) ==
  LET bf == get_bucket_fingerprint(key)
      v == get_utxo(buckets, key)
  IN  /\ last' = Call("lookup", key, v, IF v = NoValue THEN "Null" ELSE "Found",
                      0, NoKey)
      /\ buckets' = [buckets EXCEPT ![bf.bucket] =
                       IF HasMatch(@, bf.fingerprint, FALSE)
                       THEN Erase(@, FirstMatch(@, bf.fingerprint, FALSE))
                       ELSE @]

Lookup(key) ==
  /\ last' = LET v == get_utxo(buckets, key)
             IN  Call("lookup", key, v, IF v = NoValue THEN "Null" ELSE "Found",
                      0, NoKey)
  /\ UNCHANGED buckets

(***************************************************************************)
(* remove_utxo / delete_utxo                                               *)
(***************************************************************************)
remove_utxo_Clearing(bk, key) ==
  LET bf == get_bucket_fingerprint(key)
      bucket == bf.bucket
      fingerprint == bf.fingerprint
      alt_bucket == get_alt_bucket(bucket, fingerprint)
  IN
  IF HasMatch(bk[bucket], fingerprint, FALSE)
  THEN [ret |-> "Removed",
        buckets |-> [bk EXCEPT ![bucket] =
                        Erase(@, FirstMatch(bk[bucket], fingerprint, FALSE))]]
  ELSE IF HasMatch(bk[alt_bucket], fingerprint, TRUE)
  THEN [ret |-> "Removed",
        buckets |-> [bk EXCEPT ![alt_bucket] =
                        Erase(@, FirstMatch(bk[alt_bucket], fingerprint, TRUE))]]
  ELSE [ret |-> "NotFound", buckets |-> [bk EXCEPT ![bucket] = <<>>]]

remove_utxo(bk, key) ==
  LET bf == get_bucket_fingerprint(key)
      bucket == bf.bucket
      fingerprint == bf.fingerprint
      alt_bucket == get_alt_bucket(bucket, fingerprint)
  IN
  IF HasMatch(bk[bucket], fingerprint, FALSE)
  THEN [ret |-> "Removed",
        buckets |-> [bk EXCEPT ![bucket] =
                        Erase(@, FirstMatch(bk[bucket], fingerprint, FALSE))]]
  ELSE IF HasMatch(bk[alt_bucket], fingerprint, TRUE)
  THEN [ret |-> "Removed",
        buckets |-> [bk EXCEPT ![alt_bucket] =
                        Erase(@, FirstMatch(bk[alt_bucket], fingerprint, TRUE))]]
  ELSE [ret |-> "NotFound", buckets |-> bk]

Remove(key) ==
  LET r == remove_utxo(buckets, key) IN
    /\ buckets' = r.buckets
    /\ last' = Call("remove", key, NoValue, r.ret, 0, NoKey)

(***************************************************************************)
(* count                                                                   *)
(***************************************************************************)
RECURSIVE SumSizes_Short(_, _)
SumSizes_Short(bk, n) ==
  IF n <= 1 THEN 0 ELSE Len(bk[n - 1]) + SumSizes_Short(bk, n - 1)

RECURSIVE SumSizes(_, _)
SumSizes(bk, n) == IF n = 0 THEN 0 ELSE Len(bk[n - 1]) + SumSizes(bk, n - 1)

count(bk) == SumSizes(bk, NUM_BUCKETS)

\* count() / (NUM_BUCKETS * BUCKET_SIZE), as the fraction num / den
get_load_factor(bk) == [num |-> count(bk), den |-> NUM_BUCKETS * BUCKET_SIZE]

\* the numbers display_stats prints
display_stats(bk) ==
  LET entries == UNION {{bk[b][i] : i \in 1..Len(bk[b])} : b \in DOMAIN bk}
      slots == UNION {{<<b, i>> : i \in 1..Len(bk[b])} : b \in DOMAIN bk}
  IN  [total |-> count(bk),
       primary |-> Cardinality({s \in slots : ~bk[s[1]][s[2]].selector_bit}),
       secondary |-> Cardinality({s \in slots : bk[s[1]][s[2]].selector_bit}),
       empty |-> Cardinality({b \in DOMAIN bk : Len(bk[b]) = 0})]

\* the const member functions, called on the table
Count ==
  /\ last' = Call("count", NoKey, count(buckets), "Counted", 0, NoKey)
  /\ UNCHANGED buckets

LoadFactor ==
  /\ last' = Call("load_factor", NoKey, get_load_factor(buckets).num, "Computed",
                  0, NoKey)
  /\ UNCHANGED buckets

DisplayStats ==
  /\ last' = Call("stats", NoKey, display_stats(buckets).total, "Printed", 0, NoKey)
  /\ UNCHANGED buckets

(***************************************************************************)
(* Any sequence of calls.                                                  *)
(***************************************************************************)
InsertStep == \E key \in Keys, value \in Values : Insert(key, value)
LookupStep == \E key \in Keys \cup AbsentKeys : Lookup(key)
RemoveStep == \E key \in Keys \cup AbsentKeys : Remove(key)

Step == InsertStep \/ LookupStep \/ RemoveStep

Next == Step /\ UNCHANGED <<params, hist, probe>>

Spec == Init /\ [][Next]_vars

(***************************************************************************)
(* The same calls with their history recorded, for runs of at most MaxOps  *)
(* calls.                                                                  *)
(***************************************************************************)
HistAfter(h, call) ==
  [live |->
     IF call.op = "insert" /\ call.ret = "Inserted"
     THEN [h.live EXCEPT ![AddrOf(call.key)] = call.value]
     ELSE IF call.op \in {"insert", "remove"}
     THEN [h.live EXCEPT ![AddrOf(call.key)] = NoValue]
     ELSE h.live,
   inserted |-> IF call.ret = "Inserted" THEN h.inserted + 1 ELSE h.inserted,
   removed |-> IF call.ret = "Removed" THEN h.removed + 1 ELSE h.removed,
   dups |-> (h.dups \/ call.ret = "RejectedDuplicate"),
   full |-> (h.full \/ call.ret = "RejectedCapacity"),
   seen |-> IF call.op = "insert" THEN h.seen \cup {AddrOf(call.key)} ELSE h.seen,
   ops |-> h.ops + 1,
   walk |-> <<>>]

NextHistory ==
  /\ hist.ops < MaxOps
  /\ Step
  /\ hist' = HistAfter(hist, last')
  /\ UNCHANGED <<params, probe>>

SpecHistory == Init /\ [][NextHistory]_vars

(***************************************************************************)
(* Inserts only, each of a key whose (bucket, fingerprint) pair no earlier *)
(* insert had: the loop of main that fills a table with distinct keys.     *)
(***************************************************************************)
InsertFresh ==
  \E key \in SaturationKeys, value \in Values :
    /\ AddrOf(key) \notin hist.seen
    /\ Insert(key, value)

NextSaturation ==
  /\ InsertFresh
  /\ hist' = HistAfter(hist, last')
  /\ UNCHANGED <<params, probe>>

SpecSaturation == Init /\ [][NextSaturation]_vars

(***************************************************************************)
(* A table of WideTable buckets: at most MaxOps calls, add / get / remove  *)
(* on the keys WideKeys with the values WideValues and the const member    *)
(* functions, the walk of each insert recorded.                            *)
(***************************************************************************)
InsertWalk(key, value) ==
  \E r \in add_utxo(buckets, key, value) :
    LET call == Call("insert", key, value, r.ret, Len(r.walk), r.dropped) IN
      /\ buckets' = r.buckets
      /\ last' = call
      /\ hist' = [HistAfter(hist, call) EXCEPT !.walk = r.walk]

NextWide ==
  /\ hist.ops < MaxOps
  /\ \/ \E key \in WideKeys, value \in WideValues : InsertWalk(key, value)
     \/ /\ \E key \in WideKeys : Lookup(key)
        /\ hist' = HistAfter(hist, last')
     \/ /\ \E key \in WideKeys : Remove(key)
        /\ hist' = HistAfter(hist, last')
     \/ /\ Count \/ LoadFactor \/ DisplayStats
        /\ hist' = HistAfter(hist, last')
  /\ UNCHANGED <<params, probe>>

SpecWide == UTXOManager(WideTable) /\ [][NextWide]_vars

(***************************************************************************)
(* The addressing functions and the constructor on arguments of their own. *)
(***************************************************************************)
\* the (num_buckets, fingerprint_bits) pairs that main constructs tables with
filter_configs ==
  {<<Pow2(18), 13>>, <<Pow2(19), 13>>, <<Pow2(20), 15>>, <<Pow2(20), 17>>}

AltRecord(bucket_bits, fingerprint_bits, bucket, fingerprint) ==
  [op |-> "alt", bucket_bits |-> bucket_bits, fingerprint_bits |-> fingerprint_bits,
   bucket |-> bucket, fingerprint |-> fingerprint,
   alt |-> alt_bucket_of(bucket, fingerprint, bucket_bits),
   back |-> alt_bucket_of(alt_bucket_of(bucket, fingerprint, bucket_bits),
                          fingerprint, bucket_bits)]

\* get_alt_bucket on every bucket and fingerprint of a small table
AltProbe ==
  \E bucket_bits \in 1..MaxBucketBits, fingerprint_bits \in 1..MaxFingerprintBits :
    \E bucket \in 0..(Pow2(bucket_bits) - 1),
       fingerprint \in 0..(Pow2(fingerprint_bits) - 1) :
      probe' = AltRecord(bucket_bits, fingerprint_bits, bucket, fingerprint)

\* get_alt_bucket on the first and last buckets and fingerprints of the
\* tables main constructs
ProfileAltProbe ==
  \E config \in filter_configs :
    LET bucket_bits == CeilLog2(config[1])
        top_bucket == config[1] - 1
        top_fingerprint == Pow2(config[2]) - 1
    IN  \E bucket \in {0, 1, top_bucket - 1, top_bucket},
           fingerprint \in {0, 1, 2, 3, top_fingerprint - 1, top_fingerprint} :
          probe' = AltRecord(bucket_bits, config[2], bucket, fingerprint)

\* digests to split: all zeros, all ones, and those of the keys
SampleDigests == {<<0, 0>>, <<HALF - 1, HALF - 1>>} \cup {Digest[k] : k \in AllKeys}

\* get_bucket_fingerprint in the tables main constructs
ProfileProbe ==
  \E config \in filter_configs, h \in SampleDigests :
    LET bucket_bits == CeilLog2(config[1]) IN
    probe' = [op |-> "profile", num_buckets |-> config[1],
              bucket_bits |-> bucket_bits, fingerprint_bits |-> config[2],
              digest |-> h,
              bucket |-> bucket_at(h, bucket_bits),
              fingerprint |-> fingerprint_at(h, bucket_bits, config[2])]

\* UTXOManager(num_buckets, bucket_size, fingerprint_bits): the member
\* initialisers run and the body reserves the buckets; nothing is tested.
\* With num_buckets = 0, ceil(log2(0)) is minus infinity, whose conversion to
\* uint32_t is undefined: BUCKET_BITS is then any value.
Construct ==
  \E num_buckets \in 0..MaxNumBuckets, bucket_size \in 0..BUCKET_SIZE,
     fingerprint_bits \in (0..MaxFingerprintBits) \cup {32} :
    \E bucket_bits \in IF num_buckets = 0 THEN 0..32 ELSE {CeilLog2(num_buckets)} :
      probe' = [op |-> "construct", num_buckets |-> num_buckets,
                bucket_size |-> bucket_size, fingerprint_bits |-> fingerprint_bits,
                bucket_bits |-> bucket_bits, max_relocations |-> 100,
                outcome |-> "constructed", allocated |-> num_buckets]

NextProbe ==
  /\ AltProbe \/ ProfileAltProbe \/ ProfileProbe \/ Construct
  /\ UNCHANGED <<params, buckets, last, hist>>

SpecProbe == Init /\ [][NextProbe]_vars

(***************************************************************************)
(* The claims.  Their formulas read the table directly: the slots of a     *)
(* bucket that hold a given (fingerprint, selector) pair, and the two      *)
(* buckets of a key.                                                       *)
(***************************************************************************)
Slots(bk, b, f, sb) ==
  {i \in 1..Len(bk[b]) : bk[b][i].fingerprint = f /\ bk[b][i].selector_bit = sb}

MinOf(S) == CHOOSE i \in S : \A j \in S : i <= j

PrimaryOf(key) == bucket_of(Digest[key])
FpOf(key) == fingerprint_of(Digest[key])
AlternateOf(key) == get_alt_bucket(PrimaryOf(key), FpOf(key))

\* some entry matches the address of key under the lookup rule
MatchIn(bk, key) ==
  \/ Slots(bk, PrimaryOf(key), FpOf(key), FALSE) # {}
  \/ Slots(bk, AlternateOf(key), FpOf(key), TRUE) # {}

Full(bk, b) == Len(bk[b]) = BUCKET_SIZE

\* C1: every bucket holds at most BUCKET_SIZE entries in every reachable state
C1_CapacityBound == \A b \in BucketIds : Len(buckets[b]) <= BUCKET_SIZE

\* an insert went through the relocation walk and left a full bucket
C1_Witness ==
  /\ last.op = "insert" /\ last.ret = "Inserted" /\ last.evictions >= 1
  /\ \E b \in BucketIds : Full(buckets, b)

\* C2: once insert(k, v) returned Inserted, lookup(k) returns v for as long
\* as no insert or remove is called with a key of the same (bucket,
\* fingerprint) pair
C2_ReadBack ==
  \A k \in Keys :
    hist.live[AddrOf(k)] # NoValue => get_utxo(buckets, k) = hist.live[AddrOf(k)]

\* C3: every stored entry sits in the primary bucket of the key that
\* created it with selector = false, or in its alternate bucket with
\* selector = true
C3_Placement ==
  \A b \in BucketIds : \A i \in 1..Len(buckets[b]) :
    LET e == buckets[b][i] IN
      /\ e.fingerprint = FpOf(e.key)
      /\ \/ b = PrimaryOf(e.key) /\ ~e.selector_bit
         \/ b = AlternateOf(e.key) /\ e.selector_bit

\* C4: for every address (b, f) at most one stored entry matches it under
\* the lookup rule
C4_UniquePerAddress ==
  \A a \in Addresses :
    Cardinality(Slots(buckets, a[1], a[2], FALSE))
      + Cardinality(Slots(buckets, get_alt_bucket(a[1], a[2]), a[2], TRUE)) <= 1

\* C5: as long as no insert was rejected as a duplicate, count() is the
\* number of Inserted results minus the number of Removed results
C5_Conservation ==
  ~hist.dups => count(buckets) = hist.inserted - hist.removed

\* an insert through the relocation walk after a remove, no duplicate so far
C5_Witness ==
  /\ ~hist.dups /\ hist.removed >= 1 /\ hist.inserted >= 3
  /\ last.op = "insert" /\ last.evictions >= 1

\* C6: every insert returns; its relocation walk makes at most
\* MAX_RELOCATIONS + 1 evictions (one per depth 0..MAX_RELOCATIONS), and it
\* fails for capacity only once all of them are made, at depth
\* MAX_RELOCATIONS + 1
C6_WalkBound ==
  last.op = "insert" =>
    /\ last.ret \in {"Inserted", "RejectedDuplicate", "RejectedCapacity"}
    /\ last.evictions <= MAX_RELOCATIONS + 1
    /\ last.ret = "RejectedCapacity" => last.evictions = MAX_RELOCATIONS + 1

\* a walk that ran to the depth bound and failed
C6_Witness ==
  /\ last.op = "insert" /\ last.evictions = MAX_RELOCATIONS + 1
  /\ last.ret = "RejectedCapacity"

\* C7: insert returns RejectedCapacity exactly when no duplicate matched,
\* the primary and the alternate bucket of the key were both full, and the
\* walk made all its MAX_RELOCATIONS + 1 evictions without appending
\* anywhere
C7_CapacityRejection ==
  [][last'.op = "insert" =>
       ((last'.ret = "RejectedCapacity") <=>
          /\ ~MatchIn(buckets, last'.key)
          /\ Full(buckets, PrimaryOf(last'.key))
          /\ Full(buckets, AlternateOf(last'.key))
          /\ last'.evictions = MAX_RELOCATIONS + 1
          /\ \A b \in BucketIds : Len(buckets'[b]) = Len(buckets[b]))]_vars

\* a rejected insert on a table without a free slot
C7_Witness ==
  /\ last.ret = "RejectedCapacity"
  /\ count(buckets) = NUM_BUCKETS * BUCKET_SIZE

\* C8: without a duplicate, insert appends (fp, false, v) to the primary
\* bucket if it has room, else (fp, true, v) to the alternate bucket if it
\* has room, changing nothing else; the walk is entered only when both are
\* full
C8_PlacementOrder ==
  [][(last'.op = "insert" /\ ~MatchIn(buckets, last'.key)) =>
       LET k == last'.key
           new(sb) == [fingerprint |-> FpOf(k), selector_bit |-> sb,
                       value |-> last'.value, key |-> k]
       IN  /\ Len(buckets[PrimaryOf(k)]) < BUCKET_SIZE =>
                /\ buckets' = [buckets EXCEPT ![PrimaryOf(k)] = Append(@, new(FALSE))]
                /\ last'.ret = "Inserted"
           /\ (Full(buckets, PrimaryOf(k)) /\ Len(buckets[AlternateOf(k)]) < BUCKET_SIZE) =>
                /\ buckets' = [buckets EXCEPT ![AlternateOf(k)] = Append(@, new(TRUE))]
                /\ last'.ret = "Inserted"
           /\ last'.evictions > 0 =>
                Full(buckets, PrimaryOf(k)) /\ Full(buckets, AlternateOf(k))]_vars

\* an insert placed directly in an alternate bucket other than the primary
C8_Witness ==
  /\ last.op = "insert" /\ last.ret = "Inserted" /\ last.evictions = 0
  /\ AlternateOf(last.key) # PrimaryOf(last.key)
  /\ \E i \in 1..Len(buckets[AlternateOf(last.key)]) :
       LET e == buckets[AlternateOf(last.key)][i]
       IN  e.key = last.key /\ e.selector_bit

\* C9: insert returns RejectedDuplicate exactly when an entry matches the
\* key's (bucket, fingerprint) under the lookup rule, whichever key created
\* it; an insert of another key of the same address right after an insert
\* that returned Inserted is rejected
C9_DuplicateRejection ==
  [][/\ last'.op = "insert" =>
          ((last'.ret = "RejectedDuplicate") <=> MatchIn(buckets, last'.key))
     /\ (/\ last.op = "insert" /\ last.ret = "Inserted"
         /\ last'.op = "insert" /\ last'.key # last.key
         /\ AddrOf(last'.key) = AddrOf(last.key))
        => last'.ret = "RejectedDuplicate"]_vars

\* a key rejected as a duplicate of an entry that another key created
C9_Witness ==
  /\ last.op = "insert" /\ last.ret = "RejectedDuplicate"
  /\ \E b \in {PrimaryOf(last.key), AlternateOf(last.key)} :
       \E i \in 1..Len(buckets[b]) :
         /\ buckets[b][i].fingerprint = FpOf(last.key)
         /\ buckets[b][i].key # last.key

\* the result of lookup(key) as the claim words it
FirstMatchValue(bk, key) ==
  LET p == Slots(bk, PrimaryOf(key), FpOf(key), FALSE)
      a == Slots(bk, AlternateOf(key), FpOf(key), TRUE)
  IN  IF p # {} THEN bk[PrimaryOf(key)][MinOf(p)].value
      ELSE IF a # {} THEN bk[AlternateOf(key)][MinOf(a)].value
      ELSE NoValue

\* C10: lookup returns the value of the first (fp, false) entry of the
\* primary bucket, else of the first (fp, true) entry of the alternate
\* bucket, else nothing; a lookup of another key of the same address right
\* after the first insert into an empty table returns the inserted value
C10_Lookup ==
  [][/\ last'.op = "lookup" =>
          /\ last'.value = FirstMatchValue(buckets, last'.key)
          /\ (last'.ret = "Found") <=> (last'.value # NoValue)
          /\ (last'.ret = "Null") <=> (last'.value = NoValue)
     /\ (/\ last.op = "insert" /\ last.ret = "Inserted" /\ count(buckets) = 1
         /\ last'.op = "lookup" /\ last'.key # last.key
         /\ AddrOf(last'.key) = AddrOf(last.key))
        => (last'.ret = "Found" /\ last'.value = last.value)]_vars

\* a lookup answered with the only entry of the table, which another key
\* created
C10_Witness ==
  /\ last.op = "lookup" /\ last.ret = "Found" /\ count(buckets) = 1
  /\ \A b \in BucketIds : \A i \in 1..Len(buckets[b]) : buckets[b][i].key # last.key

\* C11: remove(k) of a key that was never inserted returns NotFound and
\* leaves count() unchanged; stated for the keys k whose (bucket,
\* fingerprint) pair no insert was ever called with, so that no fingerprint
\* collision accounts for the result
C11_RemoveNeverInserted ==
  [][(last'.op = "remove" /\ AddrOf(last'.key) \notin hist.seen) =>
       (last'.ret = "NotFound" /\ count(buckets') = count(buckets))]_vars

\* a sequence without its i-th element
RemoveAt(seq, i) ==
  [j \in 1..(Len(seq) - 1) |-> IF j < i THEN seq[j] ELSE seq[j + 1]]

\* C12: remove(k) returns Removed exactly when lookup(k) would return a
\* value; it then deletes the first (fp, false) entry of the primary bucket,
\* else the first (fp, true) entry of the alternate bucket, count() drops by
\* one and every other entry is unchanged; NotFound changes nothing
C12_RemoveRule ==
  [][last'.op = "remove" =>
       LET k == last'.key
           p == Slots(buckets, PrimaryOf(k), FpOf(k), FALSE)
           a == Slots(buckets, AlternateOf(k), FpOf(k), TRUE)
       IN  /\ (last'.ret = "Removed") <=> (get_utxo(buckets, k) # NoValue)
           /\ last'.ret \in {"Removed", "NotFound"}
           /\ last'.ret = "NotFound" => buckets' = buckets
           /\ last'.ret = "Removed" =>
                /\ count(buckets') = count(buckets) - 1
                /\ buckets' =
                     IF p # {}
                     THEN [buckets EXCEPT ![PrimaryOf(k)] = RemoveAt(@, MinOf(p))]
                     ELSE [buckets EXCEPT ![AlternateOf(k)] = RemoveAt(@, MinOf(a))]]_vars

\* an entry removed from the alternate bucket (the primary bucket is still
\* full), which keeps another entry
C12_Witness ==
  /\ last.op = "remove" /\ last.ret = "Removed"
  /\ AlternateOf(last.key) # PrimaryOf(last.key)
  /\ Full(buckets, PrimaryOf(last.key))
  /\ Len(buckets[AlternateOf(last.key)]) >= 1

\* C13: the table always has NUM_BUCKETS buckets, count() is the number of
\* occupied slots, 0 <= count() <= NUM_BUCKETS * BUCKET_SIZE, and the load
\* factor count() / (NUM_BUCKETS * BUCKET_SIZE) lies in [0, 1]
C13_FixedCapacity ==
  /\ DOMAIN buckets = 0..(NUM_BUCKETS - 1)
  /\ Cardinality(DOMAIN buckets) = NUM_BUCKETS
  /\ count(buckets) =
       Cardinality({bi \in BucketIds \X (1..BUCKET_SIZE) : bi[2] <= Len(buckets[bi[1]])})
  /\ 0 <= count(buckets) /\ count(buckets) <= NUM_BUCKETS * BUCKET_SIZE
  /\ LET lf == get_load_factor(buckets)
     IN  /\ lf.den = NUM_BUCKETS * BUCKET_SIZE /\ lf.den > 0
         /\ lf.num = count(buckets)
         /\ 0 <= lf.num /\ lf.num <= lf.den

\* the load factor reaches 1 with an insert that went through the walk
C13_Witness ==
  /\ get_load_factor(buckets).num = get_load_factor(buckets).den
  /\ last.op = "insert" /\ last.ret = "Inserted" /\ last.evictions >= 1

\* C14: alt is an involution when the number of buckets is a power of two:
\* for every bucket b and fingerprint f, alt(b, f) is a bucket of the table
\* and alt(alt(b, f), f) = b
C14_Involution ==
  probe.op = "alt" =>
    /\ probe.alt \in 0..(Pow2(probe.bucket_bits) - 1)
    /\ probe.back = probe.bucket

\* a fingerprint that moves the last bucket of the largest small table, and
\* one that moves a bucket of a table of 2^20 buckets
C14_Witness ==
  /\ probe.op = "alt" /\ probe.alt # probe.bucket
  /\ probe.bucket_bits \in {MaxBucketBits, 20}
  /\ probe.bucket = Pow2(probe.bucket_bits) - 1

\* the occupied slots <<bucket, index>> of a table
SlotsOf(bk) == UNION {{<<b, i>> : i \in 1..Len(bk[b])} : b \in BucketIds}

\* number of stored entries that the insert of key created
KeyCount(bk, key) == Cardinality({bi \in SlotsOf(bk) : bk[bi[1]][bi[2]].key = key})

\* C15: an insert that returns RejectedCapacity is not rolled back: when the
\* entry the walk gave up on is not the new one, the table has changed, a
\* previously stored entry of that other key is gone and the new entry is
\* stored in its place (count() unchanged)
C15_NotRolledBack ==
  [][(/\ last'.op = "insert" /\ last'.ret = "RejectedCapacity"
      /\ last'.dropped # last'.key)
     => /\ buckets' # buckets
        /\ KeyCount(buckets, last'.dropped) >= 1
        /\ KeyCount(buckets', last'.dropped) = KeyCount(buckets, last'.dropped) - 1
        /\ KeyCount(buckets', last'.key) = KeyCount(buckets, last'.key) + 1
        /\ count(buckets') = count(buckets)]_vars

\* a failed insert after which a key stored before is in no bucket and
\* lookup does not find it
C15_Witness ==
  /\ last.op = "insert" /\ last.ret = "RejectedCapacity"
  /\ last.dropped \notin {NoKey, last.key}
  /\ KeyCount(buckets, last.dropped) = 0
  /\ KeyCount(buckets, last.key) = 1
  /\ get_utxo(buckets, last.dropped) = NoValue

\* number of stored entries with fingerprint f and value v
PairCount(bk, f, v) ==
  Cardinality({bi \in SlotsOf(bk) :
                 bk[bi[1]][bi[2]].fingerprint = f /\ bk[bi[1]][bi[2]].value = v})

\* C20: an insert that returns Inserted, directly or after a relocation
\* walk, leaves the multiset of stored (fingerprint, value) pairs as it was
\* plus the one new pair (fp(k), v)
C20_InsertMovesOnly ==
  [][(last'.op = "insert" /\ last'.ret = "Inserted") =>
       \A f \in Fingerprints, v \in Values :
         PairCount(buckets', f, v) =
           PairCount(buckets, f, v)
             + (IF f = FpOf(last'.key) /\ v = last'.value THEN 1 ELSE 0)]_vars

\* an insert that succeeded at the second eviction of its walk
C20_Witness ==
  /\ last.op = "insert" /\ last.ret = "Inserted" /\ last.evictions >= 2

\* C16: inserting keys of pairwise different (bucket, fingerprint) pairs
\* with no removes, the number of Inserted results is count() and never
\* exceeds NUM_BUCKETS * BUCKET_SIZE, so that every insert after that many
\* is rejected, and once a key of every pair was inserted some insert has
\* returned RejectedCapacity
C16_Saturation ==
  /\ hist.inserted <= NUM_BUCKETS * BUCKET_SIZE
  /\ hist.inserted = count(buckets)
  /\ last.op = "insert" =>
       last.ret \in {"Inserted", "RejectedCapacity", "RejectedDuplicate"}
  /\ hist.seen = Addresses => hist.full

\* the table was filled by NUM_BUCKETS * BUCKET_SIZE inserts and the next
\* insert is rejected for capacity
C16_Witness ==
  /\ hist.inserted = NUM_BUCKETS * BUCKET_SIZE
  /\ hist.ops = NUM_BUCKETS * BUCKET_SIZE + 1
  /\ last.op = "insert" /\ last.ret = "RejectedCapacity"

\* the table of Scenario A
ScenarioA == [bucket_bits |-> 3, bucket_size |-> 2, fingerprint_bits |-> 4]

\* the fingerprints of a table of 2^bucket_bits buckets that lead from
\* bucket b to the alternate bucket a
SharingPair(b, a, bucket_bits, fingerprint_bits) ==
  {f \in 0..(Pow2(fingerprint_bits) - 1) : alt_bucket_of(b, f, bucket_bits) = a}

ValidParameters(num_buckets, bucket_size, fingerprint_bits, bucket_bits) ==
  /\ num_buckets > 0 /\ Pow2(CeilLog2(num_buckets)) = num_buckets
  /\ bucket_size > 0
  /\ fingerprint_bits > 0
  /\ bucket_bits + fingerprint_bits <= 32

\* C18: constructing a table with NUM_BUCKETS zero or not a power of two,
\* BUCKET_SIZE = 0, FINGERPRINT_BITS = 0 or BUCKET_BITS + FINGERPRINT_BITS >
\* 32 ends in a fatal configuration error before any bucket storage exists
C18_ConstructionValidated ==
  (/\ probe.op = "construct"
   /\ ~ValidParameters(probe.num_buckets, probe.bucket_size,
                       probe.fingerprint_bits, probe.bucket_bits))
  => (probe.outcome = "fatal" /\ probe.allocated = 0)

\* C19: every table that main constructs has BUCKET_BITS + FINGERPRINT_BITS
\* <= 32, so that the fingerprint (h >> BUCKET_BITS) & (2^FINGERPRINT_BITS -
\* 1) reaches its largest value 2^FINGERPRINT_BITS - 1, on the digest of all
\* ones
C19_ProfilesFit ==
  probe.op = "profile" =>
    /\ probe.bucket_bits + probe.fingerprint_bits <= 32
    /\ probe.digest = <<HALF - 1, HALF - 1>> =>
         probe.fingerprint = Pow2(probe.fingerprint_bits) - 1

(***************************************************************************)
(* Claims about an insert that returned Inserted, about the walk and about *)
(* the calls that leave the table alone.                                   *)
(***************************************************************************)
\* C21: right after insert(k, v) returned Inserted, directly or through the
\* relocation walk, the table holds an entry with fp(k) and value v in
\* bucket(k) with selector false or in alt(bucket(k), fp(k)) with selector
\* true, and lookup(k) returns v
C21_InsertedIsFound ==
  [][(last'.op = "insert" /\ last'.ret = "Inserted")
     => LET k == last'.key
            v == last'.value
        IN  /\ \/ \E i \in Slots(buckets', PrimaryOf(k), FpOf(k), FALSE) :
                    buckets'[PrimaryOf(k)][i].value = v
               \/ \E i \in Slots(buckets', AlternateOf(k), FpOf(k), TRUE) :
                    buckets'[AlternateOf(k)][i].value = v
            /\ get_utxo(buckets', k) = v]_vars

\* (a * b) mod n for a, b < 2^20 and n <= 2^20, without leaving 31 bits
MulModN(a, b, n) == ((a % 1024) * b + (((a \div 1024) * b) % n) * 1024) % n

\* 0xCC9E2D51 mod 2^20
FpMultLow == (FP_MULT[1] % 16) * HALF + FP_MULT[2]

\* C22: for every digest h, bucket = h & (NUM_BUCKETS - 1) lies in
\* [0, NUM_BUCKETS) and the fingerprint lies in [0, 2^FINGERPRINT_BITS);
\* alt(b, f) equals b XOR ((f * 0xCC9E2D51) mod NUM_BUCKETS) and lies in
\* [0, NUM_BUCKETS)
C22_AddressRanges ==
  /\ probe.op = "profile"
     => /\ probe.bucket \in 0..(probe.num_buckets - 1)
        /\ probe.bucket =
             ((probe.digest[1] % Pow2(14)) * HALF + probe.digest[2]) % probe.num_buckets
        /\ probe.fingerprint \in 0..(Pow2(probe.fingerprint_bits) - 1)
  /\ probe.op = "alt"
     => LET n == Pow2(probe.bucket_bits) IN
        /\ probe.alt \in 0..(n - 1)
        /\ probe.alt =
             BitXor(probe.bucket, MulModN(probe.fingerprint % n, FpMultLow % n, n))

\* the all-ones digest falls in the last bucket, with the largest fingerprint,
\* of the table of 2^19 buckets and 13 fingerprint bits that main constructs
C22_Witness ==
  /\ probe.op = "profile"
  /\ probe.num_buckets = Pow2(19)
  /\ probe.bucket = probe.num_buckets - 1
  /\ probe.fingerprint = Pow2(probe.fingerprint_bits) - 1

\* C23: an entry evicted from bucket B is next placed into alt(B, its own
\* fingerprint): pushed there when that bucket has room, or written there by
\* the next step of the walk
C23_EvictedToOtherHome ==
  \A i \in 1..Len(hist.walk) :
    LET step == hist.walk[i]
        home == get_alt_bucket(step.from, step.fingerprint)
    IN  IF i < Len(hist.walk)
        THEN hist.walk[i + 1].from = home
        ELSE last.ret = "Inserted" => step.to = home

\* C24: lookup, count, load_factor and stats leave every bucket's contents
\* unchanged, and with them the outcome of every later operation
C24_ReadOnly ==
  [][last'.op \in {"lookup", "count", "load_factor", "stats"}
     => /\ buckets' = buckets
        /\ display_stats(buckets') = display_stats(buckets)
        /\ \A key \in WideKeys :
             /\ get_utxo(buckets', key) = get_utxo(buckets, key)
             /\ remove_utxo(buckets', key) = remove_utxo(buckets, key)
             /\ \A value \in WideValues :
                  add_utxo(buckets', key, value) = add_utxo(buckets, key, value)]_vars

\* a lookup that found its key in a table that a walk has rearranged
C24_Witness ==
  /\ last.op = "lookup" /\ last.ret = "Found"
  /\ \E b \in BucketIds : \E i \in 1..Len(buckets[b]) :
       buckets[b][i].key = last.key /\ buckets[b][i].selector_bit
  /\ count(buckets) >= BUCKET_SIZE + 1

\* C25: an insert that returns RejectedDuplicate and a remove that returns
\* NotFound leave every bucket exactly as it was
C25_RejectionsLeaveTable ==
  [][(\/ last'.op = "insert" /\ last'.ret = "RejectedDuplicate"
      \/ last'.op = "remove" /\ last'.ret = "NotFound")
     => \A b \in BucketIds : buckets'[b] = buckets[b]]_vars

\* a remove that found nothing in a table whose primary bucket for the key is
\* not empty
C25_Witness ==
  /\ last.op = "remove" /\ last.ret = "NotFound"
  /\ Len(buckets[PrimaryOf(last.key)]) >= 1
  /\ count(buckets) >= BUCKET_SIZE + 1

One(condition) == IF condition THEN 1 ELSE 0

\* C26: an insert that returns RejectedCapacity leaves count() and the
\* occupancy of every bucket unchanged: the (fingerprint, value) pairs stored
\* afterwards are those stored before, plus the new pair, minus exactly one
\* dropped pair, the last evicted tuple, which is the new pair itself or a
\* pair stored before
C26_CapacityRejectionSwaps ==
  [][(last'.op = "insert" /\ last'.ret = "RejectedCapacity")
     => /\ count(buckets') = count(buckets)
        /\ \A b \in BucketIds : Len(buckets'[b]) = Len(buckets[b])
        /\ \E dv \in WideValues :
             LET new_f == FpOf(last'.key)
                 new_v == last'.value
                 dropped_f == FpOf(last'.dropped)
             IN  /\ \/ dropped_f = new_f /\ dv = new_v
                    \/ PairCount(buckets, dropped_f, dv) >= 1
                 /\ \A f \in Fingerprints, v \in WideValues :
                      PairCount(buckets', f, v) =
                        PairCount(buckets, f, v) + One(f = new_f /\ v = new_v)
                          - One(f = dropped_f /\ v = dv)]_vars

\* a failed insert that dropped a pair stored before, of another fingerprint
\* and another value than the new pair, which is now stored
C26_Witness ==
  /\ last.op = "insert" /\ last.ret = "RejectedCapacity"
  /\ last.dropped \notin {NoKey, last.key}
  /\ FpOf(last.dropped) # FpOf(last.key)
  /\ KeyCount(buckets, last.dropped) = 0
  /\ PairCount(buckets, FpOf(last.key), last.value) = 1
  /\ \A v \in WideValues : PairCount(buckets, FpOf(last.dropped), v) = 0
  /\ last.value = MaxValue + 1

\* C27: within one walk every eviction overwrites a slot of the same bucket,
\* alt(bucket(k), fp(k)); no entry of any other bucket is overwritten, and
\* the only other change is the final append of the last evicted entry to a
\* bucket that had room
C27_WalkStaysInOneBucket ==
  [][(last'.op = "insert" /\ last'.evictions >= 1)
     => LET k == last'.key
            walk == hist'.walk
            target == AlternateOf(k)
            final == walk[Len(walk)]
        IN  /\ Len(walk) = last'.evictions
            /\ \A i \in 1..Len(walk) : walk[i].from = target
            /\ Len(buckets'[target]) = Len(buckets[target])
            /\ \A b \in BucketIds \ {target} :
                 \/ buckets'[b] = buckets[b]
                 \/ /\ last'.ret = "Inserted"
                    /\ b = final.to
                    /\ Len(buckets[b]) < BUCKET_SIZE
                    /\ Len(buckets'[b]) = Len(buckets[b]) + 1
                    /\ SubSeq(buckets'[b], 1, Len(buckets[b])) = buckets[b]
                    /\ buckets'[b][Len(buckets'[b])].fingerprint = final.fingerprint
            /\ last'.ret = "Inserted" => Len(buckets'[final.to]) = Len(buckets[final.to]) + 1
            /\ last'.ret = "RejectedCapacity"
                 => \A b \in BucketIds \ {target} : buckets'[b] = buckets[b]]_vars

\* a walk of two evictions that ended with an append to a third bucket
C27_Witness ==
  /\ last.op = "insert" /\ last.ret = "Inserted"
  /\ Len(hist.walk) >= 2
  /\ hist.walk[Len(hist.walk)].to \notin {PrimaryOf(last.key), AlternateOf(last.key)}

\* C28: when insert(k, v) returned Inserted, whether it placed the entry in
\* the primary bucket, in the alternate bucket or through the walk, an
\* insert(k, v') for any v' right after it returns RejectedDuplicate and
\* leaves the table unchanged
C28_RepeatRejected ==
  [][(last'.op = "insert" /\ last'.ret = "Inserted")
     => \A v \in WideValues :
          add_utxo(buckets', last'.key, v) =
            {[ret |-> "RejectedDuplicate", buckets |-> buckets', walk |-> <<>>,
              dropped |-> NoKey]}]_vars

\* an insert that succeeded through a walk of two evictions
C28_Witness ==
  /\ last.op = "insert" /\ last.ret = "Inserted" /\ last.evictions >= 2
  /\ Slots(buckets, AlternateOf(last.key), FpOf(last.key), TRUE) # {}
  /\ PrimaryOf(last.key) # AlternateOf(last.key)

\* C29: when insert(k, v) returned Inserted, a remove(k) right after it
\* returns Removed and brings count() back to its value before the insert;
\* when the insert placed the entry directly, without relocation, the remove
\* restores every bucket exactly
C29_InsertRemoveRoundTrip ==
  [][(last'.op = "insert" /\ last'.ret = "Inserted")
     => LET r == remove_utxo(buckets', last'.key)
        IN  /\ r.ret = "Removed"
            /\ count(buckets') = count(buckets) + 1
            /\ count(r.buckets) = count(buckets)
            /\ last'.evictions = 0
                 => \A b \in BucketIds : r.buckets[b] = buckets[b]]_vars

\* a direct insert into the alternate bucket, behind an entry stored there
C29_Witness ==
  /\ last.op = "insert" /\ last.ret = "Inserted" /\ last.evictions = 0
  /\ PrimaryOf(last.key) # AlternateOf(last.key)
  /\ Len(buckets[AlternateOf(last.key)]) >= 2
  /\ Slots(buckets, AlternateOf(last.key), FpOf(last.key), TRUE) # {}

=============================================================================
